---- MODULE Spec2Model ----
(***************************************************************************)
(* A model of package regen (regen.go): a regular-expression AST is        *)
(* compiled, node by node, into a tree of generators; every Generate call  *)
(* walks that tree, drawing from the generator's random source, and        *)
(* returns one string.  Strings are sequences of code points.              *)
(***************************************************************************)
EXTENDS Integers, Sequences, FiniteSets, TLC

VARIABLES
    pc,       \* "idle" | "compiled" | "failed" | "panicked"
    via,      \* "none" | "NewGenerator" | "newGenerator": the entry point used
    pattern,  \* the pattern text given to NewGenerator ("" otherwise)
    flags,    \* args.Flags, a bit set as an integer
    parsed,   \* TRUE once syntax.Parse has been called
    ast,      \* the *syntax.Regexp handed to newGenerator
    gen,      \* the compiled Generator (a tree of closures), or NoGen
    err,      \* the returned error: a sequence of messages, outermost first
    tape,     \* args.Rng: the values its successive draws return, cyclically
    pos,      \* args.Rng: the number of draws made so far
    ninv,     \* the number of Generate calls made
    last,     \* the result of the latest Generate call
    hist      \* what every Generate call so far started from and returned

vars == <<pc, via, pattern, flags, parsed, ast, gen, err, tape, pos, ninv, last, hist>>

----------------------------------------------------------------------------
(* Bounds of the model. *)

\* The random source is a cyclic tape of TapeLen draws.
TapeLen == 2

\* The number of Generate calls made on one generator.
MaxGen == 2

\* The n of the pattern [a-z0-9]{1,n}.
MaxCount == 6

----------------------------------------------------------------------------
(* Program constants. *)

MaxUpperBound == 4096

\* math.MaxInt32, the end of the range built for "."
MaxInt32 == 2147483647

\* syntax.Flags bits
ClassNL == 4
DotNL == 8
OneLine == 16
PerlX == 64
UnicodeGroups == 128
\* syntax.Perl = ClassNL | OneLine | PerlX | UnicodeGroups
Perl == 212

NewLine == 10

----------------------------------------------------------------------------
(* Bit sets as integers. *)

RECURSIVE BitAnd(_, _)
BitAnd(a, b) ==
    IF a = 0 \/ b = 0 THEN 0
    ELSE (IF a % 2 = 1 /\ b % 2 = 1 THEN 1 ELSE 0) + 2 * BitAnd(a \div 2, b \div 2)

----------------------------------------------------------------------------
(* syntax.Regexp: Op, Flags (the NonGreedy bit), Sub, Rune, Min, Max. *)

Node(op, sub, rune, min, max, ng) ==
    [op |-> op, sub |-> sub, rune |-> rune, min |-> min, max |-> max, ng |-> ng]

Leaf(op) == Node(op, <<>>, <<>>, 0, 0, FALSE)
Lit(runes) == Node("Literal", <<>>, runes, 0, 0, FALSE)
Class(runes) == Node("CharClass", <<>>, runes, 0, 0, FALSE)
Op1(op, x) == Node(op, <<x>>, <<>>, 0, 0, FALSE)
OpN(op, xs) == Node(op, xs, <<>>, 0, 0, FALSE)
Rep(min, max, xs) == Node("Repeat", xs, <<>>, min, max, FALSE)

\* the keys of generatorFactories
FactoryOps ==
    {"EmptyMatch", "Literal", "AnyCharNotNL", "AnyChar", "Quest", "Star", "Plus",
     "Repeat", "CharClass", "Concat", "Alternate", "Capture", "BeginLine",
     "EndLine", "BeginText", "EndText", "WordBoundary", "NoWordBoundary"}

----------------------------------------------------------------------------
\* Simplify of regexp/syntax, as newGenerator calls it.  A result is
\* [panic, re]; panic is the index-out-of-range of re.Sub[0] on a childless
\* Star, Plus, Quest or Repeat.  Simplify returns the node it was given when
\* nothing under it changed; a node is rebuilt only when it differs from the
\* original, so pointer equality is equality here.

SimplifyPanic == [panic |-> TRUE, re |-> Leaf("NoMatch")]
Simplified(re) == [panic |-> FALSE, re |-> re]

\* simplify1(op, flags, sub, re); re is <<>> for nil, <<r>> otherwise
simplify1(op, ng, sub, re) ==
    IF sub.op = "EmptyMatch" THEN sub
    ELSE IF op = sub.op /\ ng = sub.ng THEN sub
    ELSE IF re # <<>> /\ re[1].op = op /\ re[1].ng = ng /\ sub = re[1].sub[1] THEN re[1]
    ELSE Node(op, <<sub>>, <<>>, 0, 0, ng)

\* n copies of sub
Copies(sub, n) == [i \in 1..n |-> sub]

\* the suffix (x(x(x)?)?)? of x{min,max}, built from the inside out
RECURSIVE QuestSuffix(_, _, _)
QuestSuffix(sub, ng, k) ==
    IF k <= 1 THEN simplify1("Quest", ng, sub, <<>>)
    ELSE simplify1("Quest", ng,
                   Node("Concat", <<sub, QuestSuffix(sub, ng, k - 1)>>, <<>>, 0, 0, FALSE),
                   <<>>)

SimplifyRepeat(re, sub) ==
    IF re.max = -1 THEN
        IF re.min = 0 THEN simplify1("Star", re.ng, sub, <<>>)
        ELSE IF re.min = 1 THEN simplify1("Plus", re.ng, sub, <<>>)
        ELSE Node("Concat",
                  Copies(sub, re.min - 1) \o <<simplify1("Plus", re.ng, sub, <<>>)>>,
                  <<>>, 0, 0, FALSE)
    ELSE IF re.min = 1 /\ re.max = 1 THEN sub
    ELSE IF re.max > re.min THEN
        LET suffix == QuestSuffix(sub, re.ng, re.max - re.min)
        IN  IF re.min > 0
            THEN Node("Concat", Copies(sub, re.min) \o <<suffix>>, <<>>, 0, 0, FALSE)
            ELSE suffix
    ELSE IF re.min > 0 THEN Node("Concat", Copies(sub, re.min), <<>>, 0, 0, FALSE)
    ELSE Leaf("NoMatch")

RECURSIVE Simplify(_)
Simplify(re) ==
    IF re.op \in {"Capture", "Concat", "Alternate"} THEN
        LET subs == [i \in 1..Len(re.sub) |-> Simplify(re.sub[i])]
        IN  IF \E i \in 1..Len(subs) : subs[i].panic THEN SimplifyPanic
            ELSE Simplified([re EXCEPT !.sub = [i \in 1..Len(subs) |-> subs[i].re],
                                       !.rune = IF \A i \in 1..Len(subs) : subs[i].re = re.sub[i]
                                                THEN re.rune ELSE <<>>])
    ELSE IF re.op \in {"Star", "Plus", "Quest"} THEN
        IF re.sub = <<>> THEN SimplifyPanic
        ELSE LET sub == Simplify(re.sub[1])
             IN  IF sub.panic THEN SimplifyPanic
                 ELSE Simplified(simplify1(re.op, re.ng, sub.re, <<re>>))
    ELSE IF re.op = "Repeat" THEN
        IF re.min = 0 /\ re.max = 0 THEN Simplified(Leaf("EmptyMatch"))
        ELSE IF re.sub = <<>> THEN SimplifyPanic
        ELSE LET sub == Simplify(re.sub[1])
             IN  IF sub.panic THEN SimplifyPanic
                 ELSE Simplified(SimplifyRepeat(re, sub.re))
    ELSE Simplified(re)

----------------------------------------------------------------------------
(* util.CharClass: ranges of code points addressed by one linear index. *)

\* the size of range k of a class
RangeSize(ranges, k) == ranges[k].hi - ranges[k].lo + 1

RECURSIVE SumSizes(_, _)
SumSizes(ranges, k) ==
    IF k = 0 THEN 0 ELSE SumSizes(ranges, k - 1) + RangeSize(ranges, k)

CharClass(ranges) == [ranges |-> ranges, TotalSize |-> SumSizes(ranges, Len(ranges))]

NewCharClass(start, end) == CharClass(<<[lo |-> start, hi |-> end]>>)

\* r.Rune of a CharClass node holds lo, hi pairs
ParseCharClass(runes) ==
    CharClass([k \in 1..(Len(runes) \div 2) |->
                  [lo |-> runes[2 * k - 1], hi |-> runes[2 * k]]])

\* GetRuneAt: [ok, r]; walks the ranges, ok is FALSE for an index out of bounds
RECURSIVE GetRuneFrom(_, _, _)
GetRuneFrom(ranges, k, i) ==
    IF k > Len(ranges) THEN [ok |-> FALSE, r |-> 0]
    ELSE IF i < RangeSize(ranges, k) THEN [ok |-> TRUE, r |-> ranges[k].lo + i]
    ELSE GetRuneFrom(ranges, k + 1, i - RangeSize(ranges, k))

GetRuneAt(cc, i) == IF i < 0 THEN [ok |-> FALSE, r |-> 0] ELSE GetRuneFrom(cc.ranges, 1, i)

Abs(i) == IF i < 0 THEN -i ELSE i

\* a string is the sequence of its code points
RunesToString(runes) == runes

\* generatorError(cause, message): the message, wrapping its cause
generatorError(cause, msg) == <<msg>> \o cause

----------------------------------------------------------------------------
(* Generators.  A closure is the record of what it captured. *)

G(kind, runes, cc, gens, min, max) ==
    [kind |-> kind, runes |-> runes, cc |-> cc, gens |-> gens, min |-> min, max |-> max]

NoClass == [ranges |-> <<>>, TotalSize |-> 0]
NoGen == G("none", <<>>, NoClass, <<>>, 0, 0)

\* what a factory returns: a generator, an error, or it panics
Built(g) == [gen |-> g, err |-> <<>>, panic |-> FALSE]
Failed(e) == [gen |-> NoGen, err |-> e, panic |-> FALSE]
Panicked == [gen |-> NoGen, err |-> <<>>, panic |-> TRUE]

enforceOp(r, op) == r.op = op

enforceSingleSub(r) ==
    IF Len(r.sub) # 1 THEN generatorError(<<>>, "expected 1 sub-expression") ELSE <<>>

noop(r) == Built(G("empty", <<>>, NoClass, <<>>, 0, 0))

opEmptyMatch(r) ==
    IF ~enforceOp(r, "EmptyMatch") THEN Panicked
    ELSE Built(G("empty", <<>>, NoClass, <<>>, 0, 0))

opLiteral(r) ==
    IF ~enforceOp(r, "Literal") THEN Panicked
    ELSE Built(G("literal", r.rune, NoClass, <<>>, 0, 0))

opAnyChar(r) ==
    IF ~enforceOp(r, "AnyChar") THEN Panicked
    ELSE Built(G("anychar", <<>>, NoClass, <<>>, 0, 0))

createCharClassGenerator(charClass) == Built(G("class", <<>>, charClass, <<>>, 0, 0))

opAnyCharNotNl(r) ==
    IF ~enforceOp(r, "AnyCharNotNL") THEN Panicked
    ELSE createCharClassGenerator(NewCharClass(1, MaxInt32))

opCharClass(r) ==
    IF ~enforceOp(r, "CharClass") THEN Panicked
    ELSE createCharClassGenerator(ParseCharClass(r.rune))

RECURSIVE newGenerator(_)
RECURSIVE newGeneratorsFrom(_, _)

\* the loop of newGenerators from child i on: stops at the first error
newGeneratorsFrom(rs, i) ==
    IF i > Len(rs) THEN [gens |-> <<>>, err |-> <<>>, panic |-> FALSE]
    ELSE LET g == newGenerator(rs[i])
         IN  IF g.panic THEN [gens |-> <<>>, err |-> <<>>, panic |-> TRUE]
             ELSE IF g.err # <<>> THEN [gens |-> <<>>, err |-> g.err, panic |-> FALSE]
             ELSE LET rest == newGeneratorsFrom(rs, i + 1)
                  IN  IF rest.panic \/ rest.err # <<>> THEN rest
                      ELSE [gens |-> <<g.gen>> \o rest.gens, err |-> <<>>, panic |-> FALSE]

newGenerators(rs) == newGeneratorsFrom(rs, 1)

createRepeatingGenerator(r, min, max) ==
    IF enforceSingleSub(r) # <<>> THEN Failed(enforceSingleSub(r))
    ELSE LET g == newGenerator(r.sub[1])
         IN  IF g.panic THEN Panicked
             ELSE IF g.err # <<>>
             THEN Failed(generatorError(g.err, "Failed to create generator for subexpression"))
             ELSE Built(G("repeat", <<>>, NoClass, <<g.gen>>, min,
                          IF max < 0 THEN MaxUpperBound ELSE max))

opQuest(r) ==
    IF ~enforceOp(r, "Quest") THEN Panicked ELSE createRepeatingGenerator(r, 0, 1)

opStar(r) ==
    IF ~enforceOp(r, "Star") THEN Panicked ELSE createRepeatingGenerator(r, 0, -1)

opPlus(r) ==
    IF ~enforceOp(r, "Plus") THEN Panicked ELSE createRepeatingGenerator(r, 1, -1)

opRepeat(r) ==
    IF ~enforceOp(r, "Repeat") THEN Panicked ELSE createRepeatingGenerator(r, r.min, r.max)

opConcat(r) ==
    IF ~enforceOp(r, "Concat") THEN Panicked
    ELSE LET gs == newGenerators(r.sub)
         IN  IF gs.panic THEN Panicked
             ELSE IF gs.err # <<>>
             THEN Failed(generatorError(gs.err, "error creating generators for concat pattern"))
             ELSE Built(G("concat", <<>>, NoClass, gs.gens, 0, 0))

opAlternate(r) ==
    IF ~enforceOp(r, "Alternate") THEN Panicked
    ELSE LET gs == newGenerators(r.sub)
         IN  IF gs.panic THEN Panicked
             ELSE IF gs.err # <<>>
             THEN Failed(generatorError(gs.err, "error creating generators for alternate pattern"))
             ELSE Built(G("alternate", <<>>, NoClass, gs.gens, 0, 0))

opCapture(r) ==
    IF ~enforceOp(r, "Capture") THEN Panicked
    ELSE IF enforceSingleSub(r) # <<>> THEN Failed(enforceSingleSub(r))
    ELSE newGenerator(r.sub[1])

\* generatorFactories[op](r)
Factory(op, r) ==
    CASE op = "EmptyMatch"   -> opEmptyMatch(r)
      [] op = "Literal"      -> opLiteral(r)
      [] op = "AnyCharNotNL" -> opAnyCharNotNl(r)
      [] op = "AnyChar"      -> opAnyChar(r)
      [] op = "Quest"        -> opQuest(r)
      [] op = "Star"         -> opStar(r)
      [] op = "Plus"         -> opPlus(r)
      [] op = "Repeat"       -> opRepeat(r)
      [] op = "CharClass"    -> opCharClass(r)
      [] op = "Concat"       -> opConcat(r)
      [] op = "Alternate"    -> opAlternate(r)
      [] op = "Capture"      -> opCapture(r)
      [] OTHER               -> noop(r)

newGenerator(r) ==
    LET simplified == Simplify(r)
    IN  IF simplified.panic THEN Panicked
        ELSE IF simplified.re.op \in FactoryOps
        THEN Factory(simplified.re.op, simplified.re)
        ELSE Failed(<<"invalid generator pattern">>)

----------------------------------------------------------------------------
(* args.Rng.  Draw number k returns tape[k % TapeLen + 1].  A tape value is *)
(* the 31-bit value behind one call; Intn(n) and Int31n(n) reduce it to    *)
(* [0, n) and panic for n <= 0.                                            *)

Raw(t, p) == t[(p % Len(t)) + 1]

Int31(t, p) == [ok |-> TRUE, v |-> Raw(t, p)]

Int31n(t, p, n) ==
    IF n <= 0 THEN [ok |-> FALSE, v |-> 0] ELSE [ok |-> TRUE, v |-> Raw(t, p) % n]

Intn(t, p, n) == Int31n(t, p, n)

----------------------------------------------------------------------------
(* Generate: one call of a generator g with the random source (t, p).      *)
(* The result is [out, pos, ok, calls]: the string, the source's position  *)
(* afterwards, ok = FALSE for a panic, and the calls g made of the         *)
(* generators it holds, in order, each [idx, from, to, out].               *)

Result(out, p, calls) == [out |-> out, pos |-> p, ok |-> TRUE, calls |-> calls]
GenPanic(p) == [out |-> <<>>, pos |-> p, ok |-> FALSE, calls |-> <<>>]

RECURSIVE Gen(_, _, _)
RECURSIVE RunRange(_, _, _, _, _, _)

\* the calls number lo..hi of a loop over generators, call k being of gens[pick[k]]
RunRange(gens, pick, lo, hi, t, p) ==
    IF lo > hi THEN Result(<<>>, p, <<>>)
    ELSE IF lo = hi THEN
        LET r == Gen(gens[pick[lo]], t, p)
        IN  IF ~r.ok THEN GenPanic(r.pos)
            ELSE Result(r.out, r.pos,
                        <<[idx |-> pick[lo], from |-> p, to |-> r.pos, out |-> r.out]>>)
    ELSE LET mid == (lo + hi) \div 2
             left == RunRange(gens, pick, lo, mid, t, p)
         IN  IF ~left.ok THEN left
             ELSE LET right == RunRange(gens, pick, mid + 1, hi, t, left.pos)
                  IN  IF ~right.ok THEN right
                      ELSE Result(left.out \o right.out, right.pos,
                                  left.calls \o right.calls)

\* GenCharClass taking the class for one unbroken range
GenCharClassOneRange(g, t, p) ==
    LET d == Int31n(t, p, g.cc.TotalSize)
    IN  IF ~d.ok THEN GenPanic(p)
        ELSE Result(RunesToString(<<g.cc.ranges[1].lo + Abs(d.v)>>), p + 1, <<>>)

GenCharClass(g, t, p) ==
    LET d == Int31n(t, p, g.cc.TotalSize)
    IN  IF ~d.ok THEN GenPanic(p)
        ELSE LET r == GetRuneAt(g.cc, Abs(d.v))
             IN  IF ~r.ok THEN GenPanic(p + 1)
                 ELSE Result(RunesToString(<<r.r>>), p + 1, <<>>)

\* GenConcat calling its generators last to first
GenConcatReversed(g, t, p) ==
    RunRange(g.gens, [k \in 1..Len(g.gens) |-> Len(g.gens) + 1 - k], 1, Len(g.gens), t, p)

GenConcat(g, t, p) ==
    RunRange(g.gens, [k \in 1..Len(g.gens) |-> k], 1, Len(g.gens), t, p)

\* GenAlternate drawing from one index too few
GenAlternateSkipsLast(g, t, p) ==
    LET d == Intn(t, p, Len(g.gens) - 1)
    IN  IF ~d.ok THEN GenPanic(p)
        ELSE RunRange(g.gens, [k \in {1} |-> d.v + 1], 1, 1, t, p + 1)

GenAlternate(g, t, p) ==
    LET d == Intn(t, p, Len(g.gens))
    IN  IF ~d.ok THEN GenPanic(p)
        ELSE RunRange(g.gens, [k \in {1} |-> d.v + 1], 1, 1, t, p + 1)

GenRepeat(g, t, p) ==
    LET d == Intn(t, p, g.max - g.min + 1)
    IN  IF ~d.ok THEN GenPanic(p)
        ELSE LET n == g.min + d.v
             IN  RunRange(g.gens, [k \in 1..n |-> 1], 1, n, t, p + 1)

Gen(g, t, p) ==
    CASE g.kind = "empty"     -> Result(<<>>, p, <<>>)
      [] g.kind = "literal"   -> Result(RunesToString(g.runes), p, <<>>)
      [] g.kind = "anychar"   -> Result(RunesToString(<<Int31(t, p).v>>), p + 1, <<>>)
      [] g.kind = "class"     -> GenCharClass(g, t, p)
      [] g.kind = "concat"    -> GenConcat(g, t, p)
      [] g.kind = "alternate" -> GenAlternate(g, t, p)
      [] g.kind = "repeat"    -> GenRepeat(g, t, p)

----------------------------------------------------------------------------
(* The inputs of the model. *)

\* the 31-bit values a draw may return
RawVals == {0, 1, 2, 9, 4095}

Tapes == [1..TapeLen -> RawVals]

\* args.Flags: none, DotNL, PerlX, UnicodeGroups, PerlX|UnicodeGroups,
\* UnicodeGroups|ClassNL|OneLine, Perl
FlagSets ==
    {0, DotNL, PerlX, UnicodeGroups, PerlX + UnicodeGroups,
     UnicodeGroups + ClassNL + OneLine, Perl}

litA == Lit(<<97>>)
litB == Lit(<<98>>)
litC == Lit(<<99>>)
litAB == Lit(<<97, 98>>)
litCD == Lit(<<99, 100>>)
\* [0-1a-c]
cls01AC == Class(<<48, 49, 97, 99>>)
noMatch == Leaf("NoMatch")

Patterns == {".", "a|b|c", "ab|cd", "(ab)+", "[a-z0-9]{1,n}", "a{2,}", "\\d", "("}

\* syntax.Parse(r, args.Flags) on the patterns above: [ok, re]
Parse(r, f) ==
    CASE r = "."     -> [ok |-> TRUE,
                         re |-> IF BitAnd(f, DotNL) # 0 THEN Leaf("AnyChar")
                                ELSE Leaf("AnyCharNotNL")]
      [] r = "a|b|c" -> [ok |-> TRUE, re |-> Class(<<97, 99>>)]
      [] r = "ab|cd" -> [ok |-> TRUE, re |-> OpN("Alternate", <<litAB, litCD>>)]
      [] r = "(ab)+" -> [ok |-> TRUE, re |-> Op1("Plus", Op1("Capture", litAB))]
      [] r = "[a-z0-9]{1,n}" ->
                        [ok |-> TRUE, re |-> Rep(1, MaxCount, <<Class(<<48, 57, 97, 122>>)>>)]
      [] r = "a{2,}" -> [ok |-> TRUE, re |-> Rep(2, -1, <<litA>>)]
      [] r = "\\d"   -> IF BitAnd(f, PerlX) # 0
                        THEN [ok |-> TRUE, re |-> Class(<<48, 57>>)]
                        ELSE [ok |-> FALSE, re |-> noMatch]
      [] OTHER       -> [ok |-> FALSE, re |-> noMatch]

\* trees that satisfy the invariants of the node kinds
WellFormedASTs ==
    {Leaf("EmptyMatch"), litAB, Leaf("AnyCharNotNL"), Leaf("AnyChar"), cls01AC,
     Leaf("BeginLine"), Leaf("EndLine"), Leaf("BeginText"), Leaf("EndText"),
     Leaf("WordBoundary"), Leaf("NoWordBoundary"),
     Op1("Quest", litA), Op1("Star", litAB), Op1("Plus", Op1("Capture", litAB)),
     Op1("Quest", cls01AC),
     Rep(0, -1, <<litA>>), Rep(2, -1, <<litAB>>),
     Rep(0, 0, <<litA>>), Rep(1, 1, <<litAB>>), Rep(2, 2, <<litAB>>),
     Rep(1, 3, <<litAB>>), Rep(0, 2, <<cls01AC>>),
     OpN("Concat", <<>>), OpN("Alternate", <<>>),
     OpN("Concat", <<litA, cls01AC, litB>>),
     OpN("Concat", <<OpN("Alternate", <<litA, litB>>), OpN("Alternate", <<litC, litAB>>)>>),
     OpN("Concat", <<litA, OpN("Alternate", <<>>)>>),
     OpN("Alternate", <<litA, litB, litC>>),
     OpN("Alternate", <<litAB, cls01AC, Op1("Quest", litC)>>),
     Op1("Capture", litAB), Op1("Capture", OpN("Alternate", <<litA, litB>>)),
     Op1("Star", Op1("Star", litA)), Op1("Star", Leaf("EmptyMatch")),
     Op1("Quest", Op1("Quest", litA)),
     Op1("Quest", Node("Quest", <<litA>>, <<>>, 0, 0, TRUE))}

\* trees with a node of no registered kind, or a Capture or repeat with other
\* than one child
MalformedASTs ==
    {noMatch, OpN("Concat", <<litA, noMatch>>), OpN("Alternate", <<noMatch, litA>>),
     OpN("Capture", <<>>), OpN("Capture", <<litA, litB>>),
     OpN("Star", <<>>), OpN("Star", <<litA, litB>>),
     OpN("Plus", <<Rep(1, 1, <<litA>>), litB>>),
     OpN("Star", <<Leaf("EmptyMatch"), noMatch>>),
     Rep(0, 0, <<noMatch>>), Rep(1, 2, <<noMatch>>), Rep(2, 3, <<>>), Rep(2, 3, <<litA, litB>>),
     Op1("Plus", Op1("Capture", noMatch)), Op1("Quest", OpN("Capture", <<>>)),
     OpN("Concat", <<litA, OpN("Quest", <<>>)>>)}

ASTs == WellFormedASTs \cup MalformedASTs

----------------------------------------------------------------------------
(* The state machine. *)

NoAst == Leaf("nil")
NoLast == [from |-> 0, out |-> <<>>, pos |-> 0, ok |-> TRUE, calls |-> <<>>]

Init ==
    /\ pc = "idle"
    /\ via = "none"
    /\ pattern = ""
    /\ flags = 0
    /\ parsed = FALSE
    /\ ast = NoAst
    /\ gen = NoGen
    /\ err = <<>>
    /\ tape = [k \in 1..TapeLen |-> 0]
    /\ pos = 0
    /\ ninv = 0
    /\ last = NoLast
    /\ hist = {}

\* the state a call of newGenerator(r) leaves
Compiled(r) ==
    \E c \in {newGenerator(r)} :
        /\ ast' = r
        /\ gen' = c.gen
        /\ err' = c.err
        /\ pc' = IF c.panic THEN "panicked" ELSE IF c.err # <<>> THEN "failed" ELSE "compiled"

\* the check asking for the PerlX bit alone
UnicodeGroupsWithoutPerlX(f) ==
    BitAnd(f, UnicodeGroups) = UnicodeGroups /\ BitAnd(f, PerlX) # PerlX

\* the check of NewGenerator on args.Flags
UnicodeGroupsWithoutPerl(f) ==
    BitAnd(f, UnicodeGroups) = UnicodeGroups /\ BitAnd(f, Perl) # Perl

\* NewGenerator(r, args), args.Rng being the source that draws t
NewGenerator(r, f, t) ==
    /\ pc = "idle"
    /\ via' = "NewGenerator"
    /\ pattern' = r
    /\ flags' = f
    /\ tape' = t
    /\ IF UnicodeGroupsWithoutPerl(f)
       THEN /\ parsed' = FALSE
            /\ pc' = "failed"
            /\ err' = generatorError(<<>>, "UnicodeGroups not supported")
            /\ ast' = NoAst
            /\ gen' = NoGen
       ELSE /\ parsed' = TRUE
            /\ IF ~Parse(r, f).ok
               THEN /\ pc' = "failed"
                    /\ err' = <<"parse error">>
                    /\ ast' = NoAst
                    /\ gen' = NoGen
               ELSE Compiled(Parse(r, f).re)
    /\ UNCHANGED <<pos, ninv, last, hist>>

\* newGenerator(r, args) on a tree r
CompileNode(r, t) ==
    /\ pc = "idle"
    /\ via' = "newGenerator"
    /\ tape' = t
    /\ Compiled(r)
    /\ UNCHANGED <<pattern, flags, parsed, pos, ninv, last, hist>>

\* newGenerator once more on the tree already compiled
Recompile ==
    /\ pc = "compiled"
    /\ Compiled(ast)
    /\ UNCHANGED <<via, pattern, flags, parsed, tape, pos, ninv, last, hist>>

\* Generate with a repeat closure that counts down the max it captured
GenerateLeaky ==
    /\ pc = "compiled"
    /\ ninv < MaxGen
    /\ \E r \in {Gen(gen, tape, pos)} :
           /\ last' = [from |-> pos, out |-> r.out, pos |-> r.pos, ok |-> r.ok,
                       calls |-> r.calls]
           /\ pos' = r.pos
           /\ pc' = IF r.ok THEN "compiled" ELSE "panicked"
           /\ hist' = hist \cup {[start |-> pos % TapeLen, out |-> r.out,
                                  used |-> r.pos - pos, ok |-> r.ok]}
    /\ ninv' = ninv + 1
    /\ gen' = IF gen.kind = "repeat" THEN [gen EXCEPT !.max = gen.min] ELSE gen
    /\ UNCHANGED <<via, pattern, flags, parsed, ast, err, tape>>

\* generator.Generate()
Generate ==
    /\ pc = "compiled"
    /\ ninv < MaxGen
    /\ \E r \in {Gen(gen, tape, pos)} :
           /\ last' = [from |-> pos, out |-> r.out, pos |-> r.pos, ok |-> r.ok,
                       calls |-> r.calls]
           /\ pos' = r.pos
           /\ pc' = IF r.ok THEN "compiled" ELSE "panicked"
           /\ hist' = hist \cup {[start |-> pos % TapeLen, out |-> r.out,
                                  used |-> r.pos - pos, ok |-> r.ok]}
    /\ ninv' = ninv + 1
    /\ UNCHANGED <<via, pattern, flags, parsed, ast, gen, err, tape>>

Next ==
    \/ \E r \in Patterns, f \in FlagSets, t \in Tapes : NewGenerator(r, f, t)
    \/ \E r \in ASTs, t \in Tapes : CompileNode(r, t)
    \/ Recompile
    \/ Generate

Spec == Init /\ [][Next]_vars

----------------------------------------------------------------------------
(* Vocabulary of the properties. *)

RepeatOps == {"Star", "Plus", "Quest", "Repeat"}

\* a Generate call has returned (without a panic)
Generated == ninv > 0 /\ last.ok

\* the draw the latest Generate call made first
FirstDraw == tape[(last.from % TapeLen) + 1]

\* the bounds (min, max) of a repeat node
RepMin(r) == IF r.op = "Plus" THEN 1 ELSE IF r.op = "Repeat" THEN r.min ELSE 0
RepMax(r) == IF r.op = "Quest" THEN 1 ELSE IF r.op = "Repeat" THEN r.max ELSE -1
EffectiveMax(r) == IF RepMax(r) < 0 THEN 4096 ELSE RepMax(r)

\* nodes every output of which has one length: that length
RECURSIVE UnitLen(_)
UnitLen(r) ==
    IF r.op = "Literal" THEN Len(r.rune)
    ELSE IF r.op = "Capture" /\ Len(r.sub) = 1 THEN UnitLen(r.sub[1])
    ELSE IF r.op \in {"CharClass", "AnyChar", "AnyCharNotNL"} THEN 1
    ELSE 0

\* the one output of a literal, bare or captured; <<>> for another node
RECURSIVE Word(_)
Word(r) ==
    IF r.op = "Literal" THEN r.rune
    ELSE IF r.op = "Capture" /\ Len(r.sub) = 1 THEN Word(r.sub[1])
    ELSE <<>>

\* s is w written n times
IsRepetition(s, w, n) ==
    /\ Len(s) = n * Len(w)
    /\ \A k \in 1..Len(s) : s[k] = w[((k - 1) % Len(w)) + 1]

\* the invariants of the node kinds, over a whole tree
RECURSIVE WellFormed(_)
WellFormed(r) ==
    /\ r.op \in FactoryOps
    /\ r.op \in RepeatOps \cup {"Capture"} => Len(r.sub) = 1
    /\ r.op = "Repeat" => r.min >= 0 /\ (r.max = -1 \/ r.max >= r.min)
    /\ r.op = "CharClass" =>
          /\ Len(r.rune) >= 2 /\ Len(r.rune) % 2 = 0
          /\ \A k \in 1..(Len(r.rune) \div 2) : r.rune[2 * k - 1] <= r.rune[2 * k]
    /\ \A k \in 1..Len(r.sub) : WellFormed(r.sub[k])

\* some node of the tree has no registered builder, or is a repeat or a
\* Capture with other than one child
RECURSIVE Defective(_)
Defective(r) ==
    \/ r.op \notin FactoryOps
    \/ r.op \in RepeatOps \cup {"Capture"} /\ Len(r.sub) # 1
    \/ \E k \in 1..Len(r.sub) : Defective(r.sub[k])

\* bit b (a power of two) of the bit set f
HasBit(f, b) == (f \div b) % 2 = 1

----------------------------------------------------------------------------
(* C1.  A compiled repeat node with bounds (min, max) yields its child n    *)
(* times with min <= n <= effective maximum, the effective maximum being   *)
(* 4096 for an unbounded repeat (x*, x+, x{n,}).  Stated for the children  *)
(* whose outputs all have one length, where n can be read off the output.  *)
C1_RepeatCountWithinBounds ==
    (/\ Generated
     /\ ast.op \in RepeatOps
     /\ WellFormed(ast)
     /\ UnitLen(ast.sub[1]) > 0)
    => \E n \in RepMin(ast)..EffectiveMax(ast) :
          /\ Len(last.out) = n * UnitLen(ast.sub[1])
          /\ Word(ast.sub[1]) # <<>> => IsRepetition(last.out, Word(ast.sub[1]), n)

(* C2.  The generator of "." compiled without the newline-matching flag    *)
(* (an AnyCharNotNL node) never returns a string holding code point 10.    *)
C2_DotNeverNewline ==
    (Generated /\ ast.op = "AnyCharNotNL")
    => \A k \in 1..Len(last.out) : last.out[k] # NewLine

(* C3.  Once a tree that satisfies the invariants of the node kinds has    *)
(* compiled, no Generate call fails, whatever the draws.                   *)
C3_GenerateNeverFails ==
    (WellFormed(ast) /\ ninv > 0) => last.ok /\ pc = "compiled"

(* C5.  newGenerator returns an error and no generator when some node of   *)
(* the tree has no registered builder or is a repeat or Capture with other *)
(* than one child, and a generator and no error otherwise.                 *)
C5_CompileFailsClosed ==
    via = "newGenerator" =>
        IF Defective(ast)
        THEN pc = "failed" /\ err # <<>> /\ gen = NoGen
        ELSE pc \in {"compiled", "panicked"} /\ err = <<>> /\ gen # NoGen

(* C9.  An Alternate or a Concat node with no children compiles, and every *)
(* Generate call of its generator returns the empty string.                *)
C9_ChildlessCompositeIsEmpty ==
    (ast.op \in {"Alternate", "Concat"} /\ ast.sub = <<>>)
    => /\ pc = "compiled"
       /\ gen # NoGen
       /\ ninv > 0 => last.ok /\ last.out = <<>>

----------------------------------------------------------------------------
(* C4.  NewGenerator returns the configuration error, and no generator,    *)
(* exactly for a flag set with UnicodeGroups that does not hold all of     *)
(* Perl; it does so without calling syntax.Parse, so whether the pattern   *)
(* would parse makes no difference.                                        *)
C4_UnicodeGroupsNeedPerl ==
    via = "NewGenerator" =>
        LET bad == /\ HasBit(flags, 128)
                   /\ ~(HasBit(flags, 4) /\ HasBit(flags, 16) /\ HasBit(flags, 64))
        IN  /\ bad => /\ pc = "failed"
                      /\ err = <<"UnicodeGroups not supported">>
                      /\ gen = NoGen
                      /\ ~parsed
            /\ ~bad => parsed /\ err # <<"UnicodeGroups not supported">>

\* the configuration error for a pattern that would not parse, with PerlX set
C4_Witness ==
    /\ via = "NewGenerator"
    /\ pattern = "("
    /\ flags = PerlX + UnicodeGroups
    /\ pc = "failed"
    /\ ~parsed

(* C6.  A Generate call of an alternation over n >= 1 generators draws one *)
(* index in [0, n), calls that generator and no other, and returns its     *)
(* result unchanged; every child is picked by some draw; for literal       *)
(* children, and for the pattern a|b|c, the result is one of the literals. *)
C6_AlternatePicksOneChild ==
    (gen.kind = "alternate" /\ Len(gen.gens) >= 1) =>
        LET n == Len(gen.gens)
        IN  /\ \A k \in 1..n : \E raw \in 0..(n - 1) :
                  LET r == Gen(gen, [j \in 1..TapeLen |-> raw], 0)
                  IN  r.ok /\ Len(r.calls) = 1 /\ r.calls[1].idx = k
            /\ Generated =>
                  LET i == FirstDraw % n
                      c == Gen(gen.gens[i + 1], tape, last.from + 1)
                  IN  /\ Len(last.calls) = 1
                      /\ last.calls[1].idx = i + 1
                      /\ last.calls[1].from = last.from + 1
                      /\ last.calls[1].out = c.out
                      /\ last.out = c.out
                      /\ last.pos = c.pos
            /\ (Generated /\ ast.op = "Alternate"
                  /\ \A k \in 1..Len(ast.sub) : ast.sub[k].op = "Literal")
               => \E k \in 1..Len(ast.sub) : last.out = ast.sub[k].rune

\* the third of three alternatives picked
C6_Witness ==
    /\ Generated
    /\ gen.kind = "alternate"
    /\ Len(gen.gens) = 3
    /\ last.calls[1].idx = 3
    /\ last.out = <<99>>

\* no two Generate calls that started at one place of the tape differ
HistFunctional == \A h1, h2 \in hist : h1.start = h2.start => h1 = h2

ClassRanges(r) ==
    IF r.op = "AnyCharNotNL" THEN << <<1, 2147483647>> >>
    ELSE [k \in 1..(Len(r.rune) \div 2) |-> <<r.rune[2 * k - 1], r.rune[2 * k]>>]

\* the number of code points in the ranges before range k
RECURSIVE Before(_, _)
Before(rs, k) ==
    IF k <= 1 THEN 0 ELSE Before(rs, k - 1) + (rs[k - 1][2] - rs[k - 1][1] + 1)

(* C8.  A Generate call of a character class over ranges R draws an index  *)
(* i in [0, totalSize), totalSize the sum of hi - lo + 1 over R, and       *)
(* returns the one-code-point string of the i-th code point of R taken in  *)
(* order; every code point of R is returned for some draw; the strings of  *)
(* [a-z0-9]{1,n} are 1 to n characters of a-z and 0-9.                     *)
C8_CharClassDraw ==
    /\ (gen.kind = "class" /\ ast.op \in {"CharClass", "AnyCharNotNL"}) =>
          LET rs == ClassRanges(ast)
              total == Before(rs, Len(rs) + 1)
          IN  /\ ninv > 0 =>
                    LET i == FirstDraw % total
                    IN  /\ last.ok
                        /\ last.pos = last.from + 1
                        /\ \E k \in 1..Len(rs) :
                              LET cp == rs[k][1] + (i - Before(rs, k))
                              IN  /\ rs[k][1] <= cp /\ cp <= rs[k][2]
                                  /\ last.out = <<cp>>
              /\ total <= 64 =>
                    \A k \in 1..Len(rs) : \A cp \in rs[k][1]..rs[k][2] :
                        \E raw \in 0..(total - 1) :
                            Gen(gen, [j \in 1..TapeLen |-> raw], 0).out = <<cp>>
    /\ (Generated /\ pattern = "[a-z0-9]{1,n}") =>
          /\ Len(last.out) \in 1..MaxCount
          /\ \A k \in 1..Len(last.out) : last.out[k] \in (48..57) \cup (97..122)

\* index 2 of [0-1a-c]: the first code point of the second range
C8_Witness ==
    /\ Generated
    /\ gen.kind = "class"
    /\ ast = cls01AC
    /\ FirstDraw = 2
    /\ last.out = <<97>>

\* the outputs of calls number 1..k, concatenated
RECURSIVE Flatten(_, _)
Flatten(calls, k) == IF k = 0 THEN <<>> ELSE Flatten(calls, k - 1) \o calls[k].out

(* C10.  A Generate call of a concatenation calls every one of its         *)
(* generators once, in the order of the children, each drawing where the   *)
(* one before stopped, and returns their results concatenated in that      *)
(* order; a Capture node compiles to exactly what its child compiles to.   *)
C10_ConcatInOrder ==
    /\ (gen.kind = "concat" /\ Generated) =>
          LET n == Len(gen.gens)
          IN  /\ Len(last.calls) = n
              /\ \A k \in 1..n :
                    LET c == last.calls[k]
                        r == Gen(gen.gens[k], tape, c.from)
                    IN  /\ c.idx = k
                        /\ c.from = IF k = 1 THEN last.from ELSE last.calls[k - 1].to
                        /\ r.ok /\ c.out = r.out /\ c.to = r.pos
              /\ last.pos = IF n = 0 THEN last.from ELSE last.calls[n].to
              /\ last.out = Flatten(last.calls, n)
    /\ (pc # "idle" /\ ast.op = "Capture" /\ Len(ast.sub) = 1) =>
          LET c == newGenerator(ast.sub[1])
          IN  gen = c.gen /\ err = c.err

\* (a|b)(c|ab) on the draws 1, 0: "b" from the first child, then "c"
C10_Witness ==
    /\ Generated
    /\ gen.kind = "concat"
    /\ Len(last.calls) = 2
    /\ last.calls[1].out = <<98>>
    /\ last.calls[2].from = last.from + 1
    /\ last.out = <<98, 99>>

====
